---- MODULE Spec2Model ----
(***************************************************************************)
(* RingBuf<T> (src/RingBuf.h): a circular buffer over a storage of twice   *)
(* the requested size.  Pointers are modelled as addresses (integers):     *)
(* buffer, begin and end are addresses, mem holds the allocated elements,  *)
(* mem[i] being the element at address buffer + i.  T is uint8_t.          *)
(***************************************************************************)
EXTENDS Integers, Sequences, FiniteSets, TLC

\* ---------------------------------------------------------------- bounds
MaxUsable == 3

\* The longest array a caller passes: one more than fits any buffer
MaxCount == MaxUsable + 1

\* ------------------------------------------------------- program constants
NullPtr == 0
Zero == 0

\* sizeof(T) for T = uint8_t
SizeofT == 1

\* Element values pushed by callers.  The code copies elements and never
\* inspects them, so two values that differ are enough to tell any two
\* positions of a sequence apart.  An element never written is Uninit.
Vals == {1, 2}
Uninit == Zero - 1

\* ------------------------------------------------------------ memory map
\* The caller's source/target array occupies SrcAdr .. SrcAdr + MaxCount - 1,
\* directly below the heap block of the buffer under test.
SrcAdr == NullPtr + 1
HeapAdr == SrcAdr + MaxCount
NilAdr == HeapAdr + 4 * (MaxUsable + 1) + 1

Min(x, y) == IF x < y THEN x ELSE y

\* nilBuf[2] = { 0, 0 }
nilBuf == [i \in 0..1 |-> Zero]

\* new T[len]: a block of len elements, contents indeterminate
NewArray(len) == [i \in 0..(len - 1) |-> Uninit]

\* ------------------------------------------------------------- observers
valid(b) == b.buffer # NullPtr /\ b.buffer # NilAdr

size(b) == b.end - b.begin

empty(b) == (size(b) = 0) \/ ~valid(b)

capacity(b) == IF ~valid(b) THEN 0 ELSE b.usable - size(b)

\* The elements read from data() for size() elements; a read outside the
\* allocated block yields Uninit.
ReadAt(b, p) ==
  IF (p - b.buffer) \in DOMAIN b.mem THEN b.mem[p - b.buffer] ELSE Uninit

data(b) == [i \in 1..size(b) |-> ReadAt(b, b.begin + i - 1)]

\* Does reading n elements from address p stay inside the allocated block?
InBlock(b, p, n) ==
  \A i \in 0..(n - 1) : (p + i - b.buffer) \in DOMAIN b.mem

\* ---------------------------------------------------------- construction
setFail(b) ==
  [b EXCEPT !.buffer = NilAdr, !.mem = nilBuf, !.len = 2 * b.elementSize,
            !.usable = 0, !.begin = NilAdr, !.end = NilAdr]

\* RingBuf(size, p) with the allocation returning adr (NullPtr on failure)
Construct(sz, p, adr) ==
  LET b0 == [buffer |-> adr, mem |-> NewArray(2 * sz), begin |-> NullPtr,
             end |-> NullPtr, len |-> sz * 2, usable |-> sz, preserve |-> p,
             elementSize |-> SizeofT]
  IN IF adr = NullPtr
       THEN setFail([b0 EXCEPT !.mem = << >>])
       ELSE [b0 EXCEPT !.begin = adr, !.end = adr]

\* ----------------------------------------------------------------- clear
\* clear() without the validity check
clearUnchecked(b) ==
  [b |-> [b EXCEPT !.begin = b.buffer, !.end = b.buffer], ret |-> TRUE]

clear(b) ==
  IF ~valid(b) THEN [b |-> b, ret |-> FALSE]
  ELSE [b |-> [b EXCEPT !.begin = b.buffer, !.end = b.buffer], ret |-> TRUE]

\* ------------------------------------------------------------------- pop
\* the partial pop that moves begin down again, but not end
PopPartlyKeepEnd(b, numElements) ==
  LET b1 == [b EXCEPT !.begin = b.begin + numElements]
  IN IF b1.begin >= (b1.buffer + b1.usable)
       THEN [b1 EXCEPT !.begin = b1.begin - b1.usable]
       ELSE b1

\* the partial pop that leaves the cursors where begin += numElements put
\* them
PopPartlyUnwrapped(b, numElements) ==
  [b EXCEPT !.begin = b.begin + numElements]

PopPartly(b, numElements) ==
  LET b1 == [b EXCEPT !.begin = b.begin + numElements]
  IN IF b1.begin >= (b1.buffer + b1.usable)
       THEN [b1 EXCEPT !.begin = b1.begin - b1.usable,
                       !.end = b1.end - b1.usable]
       ELSE b1

\* pop() returning the number requested, whatever it removed
popReturnsRequest(b, numElements) ==
  IF ~valid(b) THEN [b |-> b, ret |-> 0]
  ELSE IF size(b) # 0
    THEN IF numElements >= size(b)
           THEN [b |-> clear(b).b, ret |-> numElements]
           ELSE [b |-> PopPartly(b, numElements), ret |-> numElements]
    ELSE [b |-> b, ret |-> 0]

pop(b, numElements) ==
  IF ~valid(b) THEN [b |-> b, ret |-> 0]
  ELSE IF size(b) # 0
    THEN IF numElements >= size(b)
           THEN [b |-> clear(b).b, ret |-> size(b)]
           ELSE [b |-> PopPartly(b, numElements), ret |-> numElements]
    ELSE [b |-> b, ret |-> 0]

\* ------------------------------------------------------- element writes
\* *p = c.  A write outside the allocated block leaves mem alone and is
\* recorded in oob.
Store(w, p, c) ==
  IF (p - w.b.buffer) \in DOMAIN w.b.mem
    THEN [w EXCEPT !.b.mem[p - w.b.buffer] = c]
    ELSE [w EXCEPT !.oob = TRUE]

\* -------------------------------------------------- push_back(const T c)
\* dropping the oldest element with begin wrapped, end left where it was
DropOldestKeepEnd(b) ==
  LET b1 == [b EXCEPT !.begin = b.begin + 1]
  IN IF b1.begin >= (b1.buffer + b1.usable)
       THEN [b1 EXCEPT !.begin = b1.buffer]
       ELSE b1

DropOldest(b) ==
  LET b1 == [b EXCEPT !.begin = b.begin + 1]
  IN IF b1.begin >= (b1.buffer + b1.usable)
       THEN [b1 EXCEPT !.begin = b1.buffer,
                       !.end = b1.buffer + b1.usable - 1]
       ELSE b1

\* adding an element to one half only
AddElementNoMirror(b, c) ==
  LET w1 == Store([b |-> b, oob |-> FALSE], b.end, c)
  IN [b |-> [w1.b EXCEPT !.end = b.end + 1], ret |-> TRUE, oob |-> w1.oob]

AddElement(b, c) ==
  LET w1 == Store([b |-> b, oob |-> FALSE], b.end, c)
      w2 == IF b.end >= (b.buffer + b.usable)
              THEN Store(w1, b.end - b.usable, c)
              ELSE Store(w1, b.end + b.usable, c)
  IN [b |-> [w2.b EXCEPT !.end = b.end + 1], ret |-> TRUE, oob |-> w2.oob]

\* push_back() that drops the oldest element whatever preserve says
push_backNoPreserve(b, c) ==
  IF ~valid(b) THEN [b |-> b, ret |-> FALSE, oob |-> FALSE]
  ELSE IF capacity(b) = 0
    THEN AddElement(DropOldest(b), c)
    ELSE AddElement(b, c)

push_back(b, c) ==
  IF ~valid(b) THEN [b |-> b, ret |-> FALSE, oob |-> FALSE]
  ELSE IF capacity(b) = 0
    THEN IF b.preserve
           THEN [b |-> b, ret |-> FALSE, oob |-> FALSE]
           ELSE AddElement(DropOldest(b), c)
    ELSE AddElement(b, c)

\* ----------------------------------------------------------------- memcpy
\* The element a pointer q reads while the caller's array d lies at
\* adr .. adr + Len(d) - 1: an address inside the buffer's own block reads
\* the block, every other address reads the caller's array.
Fetch(b, q, adr, d) ==
  IF (q - b.buffer) \in DOMAIN b.mem THEN b.mem[q - b.buffer]
  ELSE IF (q - adr + 1) \in DOMAIN d THEN d[q - adr + 1]
  ELSE Uninit

\* memcpy(dst, src, n) copying element by element in ascending order
RECURSIVE CopyUp(_, _, _, _, _, _)
CopyUp(w, dst, src, n, adr, d) ==
  IF n <= 0 THEN w
  ELSE CopyUp(Store(w, dst, Fetch(w.b, src, adr, d)),
              dst + 1, src + 1, n - 1, adr, d)

\* memcpy(dst, src, n) reading the whole source before it writes
RECURSIVE StoreAll(_, _, _)
StoreAll(w, dst, vs) ==
  IF vs = << >> THEN w
  ELSE StoreAll(Store(w, dst, Head(vs)), dst + 1, Tail(vs))

CopyWhole(w, dst, src, n, adr, d) ==
  StoreAll(w, dst, [i \in 1..n |-> Fetch(w.b, src + i - 1, adr, d)])

\* memcpy is undefined when source and destination overlap: ub selects
\* which of the two copies the library performs.  Without overlap both
\* give the same result.
memcpy(w, dst, src, n, adr, d, ub) ==
  IF ub = "up" THEN CopyUp(w, dst, src, n, adr, d)
  ELSE CopyWhole(w, dst, src, n, adr, d)

UBChoices == {"up", "whole"}

\* ------------------------------------- push_back(const T *data, size_t)
\* uint16_t firstPart
U16 == 65536

\* "Avoid self-referencing pushes"
SelfReferencing(b, adr) == adr >= b.buffer /\ adr <= (b.buffer + b.len)

\* "Make room for the data": the clipped (data, size) and the moved cursors
\* making room with size clipped but data left at the start of the batch
MakeRoomKeepFirst(b, adr, sz) ==
  LET sz1 == IF sz > b.usable THEN b.usable ELSE sz
      b1 == [b EXCEPT !.begin = b.begin + (sz1 - capacity(b))]
      b2 == IF b1.begin >= (b1.buffer + b1.usable)
              THEN [b1 EXCEPT !.begin = b1.begin - b1.usable,
                              !.end = b1.end - b1.usable]
              ELSE b1
  IN [b |-> b2, adr |-> adr, sz |-> sz1]

\* making room for the whole batch, whatever is still free
MakeRoomForBatch(b, adr, sz) ==
  LET clip == sz > b.usable
      adr1 == IF clip THEN adr + (sz - b.usable) ELSE adr
      sz1 == IF clip THEN b.usable ELSE sz
      b1 == [b EXCEPT !.begin = b.begin + sz1]
      b2 == IF b1.begin >= (b1.buffer + b1.usable)
              THEN [b1 EXCEPT !.begin = b1.begin - b1.usable,
                              !.end = b1.end - b1.usable]
              ELSE b1
  IN [b |-> b2, adr |-> adr1, sz |-> sz1]

MakeRoom(b, adr, sz) ==
  LET clip == sz > b.usable
      adr1 == IF clip THEN adr + (sz - b.usable) ELSE adr
      sz1 == IF clip THEN b.usable ELSE sz
      b1 == [b EXCEPT !.begin = b.begin + (sz1 - capacity(b))]
      b2 == IF b1.begin >= (b1.buffer + b1.usable)
              THEN [b1 EXCEPT !.begin = b1.begin - b1.usable,
                              !.end = b1.end - b1.usable]
              ELSE b1
  IN [b |-> b2, adr |-> adr1, sz |-> sz1]

\* the copy to the other half never split at the end of the block
CopyInUnsplit(b, adr, sz, adr0, d, ub) ==
  LET w1 == memcpy([b |-> b, oob |-> FALSE], b.end, adr, sz * b.elementSize,
                   adr0, d, ub)
      w2 == IF b.end >= (b.buffer + b.usable)
              THEN memcpy(w1, b.end - b.usable, adr, sz * b.elementSize,
                          adr0, d, ub)
              ELSE memcpy(w1, b.end + b.usable, adr, sz * b.elementSize,
                          adr0, d, ub)
  IN [b |-> [w2.b EXCEPT !.end = b.end + sz], ret |-> TRUE, oob |-> w2.oob]

\* uint16_t firstPart = len - (end - buffer + usable);
FirstPart(b) == (b.len - (b.end - b.buffer + b.usable)) % U16

\* "copy it in" and "Also copy to the other half"; adr0, d: the caller's array
CopyIn(b, adr, sz, adr0, d, ub) ==
  LET w1 == memcpy([b |-> b, oob |-> FALSE], b.end, adr, sz * b.elementSize,
                   adr0, d, ub)
      firstPart == FirstPart(b)
      w2 == IF b.end >= (b.buffer + b.usable)
              THEN memcpy(w1, b.end - b.usable, adr, sz * b.elementSize,
                          adr0, d, ub)
              ELSE IF (b.end + b.usable + sz) <= (b.buffer + b.len)
                THEN memcpy(w1, b.end + b.usable, adr, sz * b.elementSize,
                            adr0, d, ub)
                ELSE memcpy(memcpy(w1, b.end + b.usable, adr,
                                   firstPart * b.elementSize, adr0, d, ub),
                            b.buffer, adr + firstPart,
                            (sz - firstPart) * b.elementSize, adr0, d, ub)
  IN [b |-> [w2.b EXCEPT !.end = b.end + sz], ret |-> TRUE, oob |-> w2.oob]

push_backBulk(b, adr, sz, d, ub) ==
  IF ~valid(b) THEN [b |-> b, ret |-> FALSE, oob |-> FALSE]
  ELSE IF adr = NullPtr \/ sz = 0 THEN [b |-> b, ret |-> FALSE, oob |-> FALSE]
  ELSE IF SelfReferencing(b, adr) THEN [b |-> b, ret |-> FALSE, oob |-> FALSE]
  ELSE IF sz > capacity(b)
    THEN IF b.preserve
           THEN [b |-> b, ret |-> FALSE, oob |-> FALSE]
           ELSE LET m == MakeRoom(b, adr, sz)
                IN CopyIn(m.b, m.adr, m.sz, adr, d, ub)
    ELSE CopyIn(b, adr, sz, adr, d, ub)

\* ------------------------------------------------------------ operator[]
\* operator[] without the test of index against size()
AtUnchecked(b, index) ==
  IF ~valid(b) THEN Zero
  ELSE ReadAt(b, b.begin + index)

At(b, index) ==
  IF ~valid(b) THEN Zero
  ELSE IF index >= 0 /\ index < size(b) THEN ReadAt(b, b.begin + index)
  ELSE Zero

\* The offsets into the block that operator[] dereferences: begin + index
\* when it reads, none when it returns 0
AtReads(b, index) ==
  IF ~valid(b) THEN << >>
  ELSE IF index >= 0 /\ index < size(b)
    THEN << b.begin + index - b.buffer >>
    ELSE << >>

\* -------------------------------------------------------------- safeCopy
\* out: the elements written to target, in order
\* safeCopy() copying from one element past begin
safeCopyFromNext(b, target, len, move) ==
  IF ~valid(b) THEN [b |-> b, ret |-> 0, out |-> << >>]
  ELSE IF target = NullPtr THEN [b |-> b, ret |-> 0, out |-> << >>]
  ELSE LET n == IF len > size(b) THEN size(b) ELSE len
           copied == [i \in 1..n |-> ReadAt(b, b.begin + i)]
       IN [b |-> IF move THEN pop(b, n).b ELSE b, ret |-> n, out |-> copied]

\* safeCopy() that does not cut len down to size()
safeCopyNoClamp(b, target, len, move) ==
  IF ~valid(b) THEN [b |-> b, ret |-> 0, out |-> << >>]
  ELSE IF target = NullPtr THEN [b |-> b, ret |-> 0, out |-> << >>]
  ELSE LET copied == [i \in 1..len |-> ReadAt(b, b.begin + i - 1)]
       IN [b |-> IF move THEN pop(b, len).b ELSE b, ret |-> len,
           out |-> copied]

safeCopy(b, target, len, move) ==
  IF ~valid(b) THEN [b |-> b, ret |-> 0, out |-> << >>]
  ELSE IF target = NullPtr THEN [b |-> b, ret |-> 0, out |-> << >>]
  ELSE LET n == IF len > size(b) THEN size(b) ELSE len
           copied == [i \in 1..n |-> ReadAt(b, b.begin + i - 1)]
       IN [b |-> IF move THEN pop(b, n).b ELSE b, ret |-> n, out |-> copied]

\* ------------------------------------------------------------ operator==
\* operator== that stops after comparing the sizes
EqualsSizeOnly(b, r) ==
  IF ~valid(b) \/ ~valid(r) THEN FALSE
  ELSE size(b) = size(r)

\* memcmp(begin, r.begin, size()) is 0 exactly when the two ranges hold the
\* same elements
Equals(b, r) ==
  IF ~valid(b) \/ ~valid(r) THEN FALSE
  ELSE IF size(b) # size(r) THEN FALSE
  ELSE data(b) = data(r)

\* ------------------------------------------------- copy and move, RingBuf.h
\* An object whose constructor has initialised no member yet: preserve and
\* elementSize hold whatever the memory held (p, es)
Raw(p, es) ==
  [buffer |-> NullPtr, mem |-> << >>, begin |-> NullPtr, end |-> NullPtr,
   len |-> 0, usable |-> 0, preserve |-> p, elementSize |-> es]

\* RingBuf(const RingBuf &r) with the allocation returning adr
CopyConstruct(r, adr, p, es) ==
  IF r.buffer # NullPtr /\ r.buffer # NilAdr
    THEN IF adr # NullPtr
           THEN [buffer |-> adr, mem |-> r.mem, len |-> r.len,
                 begin |-> adr + (r.begin - r.buffer),
                 end |-> adr + (r.end - r.buffer),
                 preserve |-> r.preserve, usable |-> r.usable,
                 elementSize |-> r.elementSize]
           ELSE setFail(Raw(p, es))
    ELSE setFail(Raw(p, es))

\* r.buffer = nullptr: the block is no longer the source's
Disown(r) == [r EXCEPT !.buffer = NullPtr, !.mem = << >>]

\* RingBuf(RingBuf &&r): [b |-> the new object, r |-> the source afterwards]
MoveConstruct(r, p, es) ==
  IF r.buffer # NullPtr /\ r.buffer # NilAdr
    THEN [b |-> [buffer |-> r.buffer, mem |-> r.mem, len |-> r.len,
                 begin |-> r.buffer + (r.begin - r.buffer),
                 end |-> r.buffer + (r.end - r.buffer),
                 preserve |-> r.preserve, usable |-> r.usable,
                 elementSize |-> r.elementSize],
          r |-> Disown(r)]
    ELSE [b |-> setFail(Raw(p, es)), r |-> r]

\* operator=(const RingBuf &r)
CopyAssign(b, r, ub) ==
  IF valid(b) /\ (r.buffer # NullPtr /\ r.buffer # NilAdr)
    THEN push_backBulk(clear(b).b, r.begin, r.end - r.begin, data(r), ub)
    ELSE [b |-> b, ret |-> FALSE, oob |-> FALSE]

\* operator=(RingBuf &&r): [b |-> this afterwards, r |-> the source afterwards]
MoveAssign(b, r, ub) ==
  IF valid(b) /\ (r.buffer # NullPtr /\ r.buffer # NilAdr)
    THEN [b |-> CopyAssign(b, r, ub).b, r |-> Disown(r),
          oob |-> CopyAssign(b, r, ub).oob]
    ELSE [b |-> b, r |-> r, oob |-> FALSE]

\* ===================================================================== state
\* rb:   the RingBuf objects of the program, by name
\* live: the objects constructed so far
\* fifo: per object, the queue a plain bounded FIFO would hold after the
\*       same calls
\* sent: per object, the elements pushed since the buffer was last empty,
\*       as long as only pushes followed and all of them fitted (ok)
\* last: the call completed last, with its arguments and results
\* pre:  the objects and the pushes as that call found them
\* conc: the mutex m and the two threads that share object a, each with its
\*       position in the call it is executing and that call's locals
VARIABLES rb, live, fifo, sent, last, pre, conc

vars == << rb, live, fifo, sent, last, pre, conc >>

Objs == {"a", "b"}

Other(o) == IF o = "a" THEN "b" ELSE "a"

\* An object not constructed yet
NoObject ==
  [buffer |-> NullPtr, mem |-> << >>, begin |-> NullPtr, end |-> NullPtr,
   len |-> 0, usable |-> 0, preserve |-> FALSE, elementSize |-> 0]

\* The address operator new returns for the block of object o
BlockAdr(o) == IF o = "a" THEN HeapAdr ELSE HeapAdr + 2 * (MaxUsable + 1)

\* ------------------------------------------------- the pushes since empty
Fresh == [ok |-> TRUE, q |-> << >>]
Void == [ok |-> FALSE, q |-> << >>]

\* after a push of xs into a buffer of capacity cap
SentPush(s, cap, xs) ==
  IF s.ok /\ Len(s.q) + Len(xs) <= cap THEN [s EXCEPT !.q = s.q \o xs]
  ELSE Void

\* after a removal that left b behind
SentTake(b) == IF valid(b) /\ size(b) = 0 THEN Fresh ELSE Void

\* The record of a call
Call(op, o, n, c, adr, d, mv, ret, out, oob) ==
  [op |-> op, o |-> o, n |-> n, c |-> c, adr |-> adr, d |-> d, mv |-> mv,
   ret |-> ret, out |-> out, oob |-> oob]

\* No call is under observation: the caller has taken the last result
NoCall ==
  Call("none", "a", 0, Zero, NullPtr, << >>, FALSE, FALSE, << >>, FALSE)

Idle == last.op = "none"

\* What a call on object o finds: o itself, the other object, o's pushes
Snapshot(o) == [b |-> rb[o], r |-> rb[Other(o)], sent |-> sent[o]]

\* Nothing is kept of the state before once the result is taken
NoSnapshot == [b |-> NoObject, r |-> NoObject, sent |-> Void]

\* ------------------------------------------------------ the reference FIFO
LastN(q, n) ==
  IF Len(q) <= n THEN q ELSE SubSeq(q, Len(q) - n + 1, Len(q))

\* append xs to a queue of capacity cap: refused as a whole when it does
\* not fit and old data is preserved, else the oldest elements give way
RefPush(q, cap, keep, xs) ==
  IF keep
    THEN IF Len(q) + Len(xs) <= cap THEN q \o xs ELSE q
    ELSE LastN(q \o xs, cap)

RefPop(q, n) == SubSeq(q, Min(n, Len(q)) + 1, Len(q))

\* ----------------------------------------------------- mutex and threads
\* A difference of pointers converted to size_t: a negative one becomes a
\* number far above every count a caller passes.  16 bits, the narrowest
\* size_t of the builds (AVR), stand for the 32 bits of the ESP32 as well.
SizeMod == 65536

ToSize(x) == x % SizeMod

\* No cursor loaded yet by a size() in progress
NoLoad == [which |-> "none", val |-> NullPtr]

\* The producer: pc its position, op the call, c / d its argument, base the
\* address of d, adr and sz the locals data and size, ret its result
IdleProducer ==
  [pc |-> "idle", op |-> "none", c |-> Zero, d |-> << >>, base |-> NullPtr,
   adr |-> NullPtr, sz |-> 0, ret |-> FALSE]

\* The consumer: n is numElements (len for safeCopy), ld the cursor a
\* size() in progress has loaded, cnt the local n of pop, out the elements
\* copied to target, gone the elements the call took out of the buffer
IdleConsumer ==
  [pc |-> "idle", op |-> "none", n |-> 0, mv |-> FALSE, ld |-> NoLoad,
   cnt |-> 0, out |-> << >>, gone |-> << >>, ret |-> 0]

\* broken: a scope has ended with the cursors corrupt
NoThreads ==
  [mutex |-> "free", p |-> IdleProducer, c |-> IdleConsumer,
   broken |-> FALSE]

\* ---------------------------------------------------------------- inputs
Sizes == 0..MaxUsable
Counts == 0..MaxCount
Arrays == UNION {[1..n -> Vals] : n \in Counts}

\* Values an uninitialised elementSize member may hold
Junk == {0, SizeofT, 2 * SizeofT}

\* ------------------------------------------------------------------ Init
Init ==
  \E sz \in Sizes, p \in BOOLEAN, adr \in {BlockAdr("a"), NullPtr} :
    /\ rb = [o \in Objs |-> IF o = "a" THEN Construct(sz, p, adr) ELSE NoObject]
    /\ live = {"a"}
    /\ fifo = [o \in Objs |-> << >>]
    /\ sent = [o \in Objs |-> IF o = "a" /\ adr # NullPtr THEN Fresh ELSE Void]
    /\ last = Call("construct", "a", sz, Zero, adr, << >>, p, TRUE, << >>, FALSE)
    /\ pre = Snapshot("a")
    /\ conc = NoThreads

\* --------------------------------------------------------------- actions
Clear(o) ==
  /\ Idle
  /\ o \in live
  /\ \E r \in {clear(rb[o])} :
       /\ rb' = [rb EXCEPT ![o] = r.b]
       /\ fifo' = [fifo EXCEPT ![o] = IF r.ret THEN << >> ELSE @]
       /\ sent' = [sent EXCEPT ![o] = SentTake(r.b)]
       /\ last' = Call("clear", o, 0, Zero, NullPtr, << >>, FALSE, r.ret,
                       << >>, FALSE)
  /\ pre' = Snapshot(o)
  /\ UNCHANGED conc
  /\ UNCHANGED live

Pop(o) ==
  /\ Idle
  /\ o \in live
  /\ \E n \in Counts :
       \E r \in {pop(rb[o], n)} :
         /\ rb' = [rb EXCEPT ![o] = r.b]
         /\ fifo' = [fifo EXCEPT ![o] =
                       IF valid(rb[o]) THEN RefPop(@, n) ELSE @]
         /\ sent' = [sent EXCEPT ![o] = SentTake(r.b)]
         /\ last' = Call("pop", o, n, Zero, NullPtr, << >>, FALSE, r.ret,
                         << >>, FALSE)
  /\ pre' = Snapshot(o)
  /\ UNCHANGED conc
  /\ UNCHANGED live

Push(o) ==
  /\ Idle
  /\ o \in live
  /\ \E c \in Vals :
       \E r \in {push_back(rb[o], c)} :
         /\ rb' = [rb EXCEPT ![o] = r.b]
         /\ fifo' = [fifo EXCEPT ![o] =
                       IF valid(rb[o])
                         THEN RefPush(@, rb[o].usable, rb[o].preserve, << c >>)
                         ELSE @]
         /\ sent' = [sent EXCEPT ![o] = SentPush(@, rb[o].usable, << c >>)]
         /\ last' = Call("push", o, 1, c, NullPtr, << c >>, FALSE, r.ret,
                         << >>, r.oob)
  /\ pre' = Snapshot(o)
  /\ UNCHANGED conc
  /\ UNCHANGED live

\* pushBulk from the caller's array d at SrcAdr, which lies wholly below the
\* block: source and destination never overlap, the two memcpy orders agree
PushBulk(o) ==
  /\ Idle
  /\ o \in live
  /\ \E d \in Arrays :
       \E r \in {push_backBulk(rb[o], SrcAdr, Len(d), d, "whole")} :
         /\ rb' = [rb EXCEPT ![o] = r.b]
         /\ fifo' = [fifo EXCEPT ![o] =
                       IF valid(rb[o])
                         THEN RefPush(@, rb[o].usable, rb[o].preserve, d)
                         ELSE @]
         /\ sent' = [sent EXCEPT ![o] = SentPush(@, rb[o].usable, d)]
         /\ last' = Call("pushBulk", o, Len(d), Zero, SrcAdr, d, FALSE, r.ret,
                         << >>, r.oob)
  /\ pre' = Snapshot(o)
  /\ UNCHANGED conc
  /\ UNCHANGED live

\* pushBulk with a null source, or with a source that starts inside the
\* buffer's own block (up to the address one past its end)
PushBulkRefused(o) ==
  /\ Idle
  /\ o \in live
  /\ \E adr \in {NullPtr} \union (rb[o].buffer..(rb[o].buffer + rb[o].len)),
        n \in 1..2 :
       \E r \in {push_backBulk(rb[o], adr, n, << >>, "whole")} :
         /\ rb' = [rb EXCEPT ![o] = r.b]
         /\ last' = Call("pushBulk", o, n, Zero, adr, << >>, FALSE, r.ret,
                         << >>, r.oob)
  /\ pre' = Snapshot(o)
  /\ UNCHANGED conc
  /\ UNCHANGED << live, fifo, sent >>

\* pushBulk from a caller's array that starts one element below the block
\* and runs into it: the source elements at the block's addresses are the
\* block's own, only d[1] is the caller's
PushBulkAcross(o) ==
  /\ Idle
  /\ o \in live
  /\ valid(rb[o])
  /\ rb[o].usable > 0
  /\ \E c \in Vals, n \in 2..MaxCount, ub \in UBChoices :
       \E r \in {push_backBulk(rb[o], rb[o].buffer - 1, n, << c >>, ub)} :
         /\ rb' = [rb EXCEPT ![o] = r.b]
         /\ last' = Call("pushBulk", o, n, Zero, rb[o].buffer - 1, << c >>,
                         FALSE, r.ret, << >>, r.oob)
  /\ sent' = [sent EXCEPT ![o] = Void]
  /\ pre' = Snapshot(o)
  /\ UNCHANGED conc
  /\ UNCHANGED << live, fifo >>

SafeCopy(o) ==
  /\ Idle
  /\ o \in live
  /\ \E target \in {NullPtr, SrcAdr}, len \in Counts, move \in BOOLEAN :
       \E r \in {safeCopy(rb[o], target, len, move)} :
         /\ rb' = [rb EXCEPT ![o] = r.b]
         /\ fifo' = [fifo EXCEPT ![o] =
                       IF valid(rb[o]) /\ target # NullPtr /\ move
                         THEN RefPop(@, len) ELSE @]
         /\ sent' = [sent EXCEPT ![o] =
                       IF r.b = rb[o] THEN @ ELSE SentTake(r.b)]
         /\ last' = Call("safeCopy", o, len, Zero, target, << >>, move, r.ret,
                         r.out, FALSE)
  /\ pre' = Snapshot(o)
  /\ UNCHANGED conc
  /\ UNCHANGED live

\* rb[index]: the element returned in c, the offsets read in out
IndexedRead(o) ==
  /\ Idle
  /\ o \in live
  /\ \E index \in Counts :
       last' = Call("at", o, index, At(rb[o], index), NullPtr, << >>, FALSE,
                    TRUE, AtReads(rb[o], index), FALSE)
  /\ pre' = Snapshot(o)
  /\ UNCHANGED conc
  /\ UNCHANGED << rb, live, fifo, sent >>

\* The caller takes the result of the last call and goes on
Return ==
  /\ ~Idle
  /\ last' = NoCall
  /\ pre' = NoSnapshot
  /\ UNCHANGED conc
  /\ UNCHANGED << rb, live, fifo, sent >>

Next ==
  \/ Return
  \/ Clear("a")
  \/ Pop("a")
  \/ Push("a")
  \/ PushBulk("a")
  \/ PushBulkRefused("a")
  \/ SafeCopy("a")
  \/ IndexedRead("a")

Spec == Init /\ [][Next]_vars

\* The same program, also passing pushBulk arrays that run into the block
NextAlias == Next \/ PushBulkAcross("a")

\* aliasing pushes fill the block with every mix of elements: the block is
\* kept one size smaller here
InitAlias == Init /\ rb["a"].usable < MaxUsable

SpecAlias == InitAlias /\ [][NextAlias]_vars

\* ------------------------------------------------- a second object, b
\* b is a scoped object: constructed (afresh, or as a copy of a, or by
\* moving from a), assigned to or from a, and destroyed.  While b is alive
\* the calls above reach a only if a has stopped being valid.
Scoped == "b" \notin live \/ ~valid(rb["a"])

\* The reference content of dst after dst = src
RefAssign(dst, src) ==
  IF valid(rb[dst]) /\ valid(rb[src])
    THEN RefPush(<< >>, rb[dst].usable, rb[dst].preserve, fifo[src])
    ELSE fifo[dst]

ConstructPeer ==
  /\ Idle
  /\ "b" \notin live
  /\ \E sz \in Sizes, p \in BOOLEAN, adr \in {BlockAdr("b"), NullPtr} :
       /\ rb' = [rb EXCEPT !["b"] = Construct(sz, p, adr)]
       /\ sent' = [sent EXCEPT !["b"] = IF adr # NullPtr THEN Fresh ELSE Void]
       /\ last' = Call("construct", "b", sz, Zero, adr, << >>, p, TRUE,
                       << >>, FALSE)
  /\ live' = live \union {"b"}
  /\ fifo' = [fifo EXCEPT !["b"] = << >>]
  /\ pre' = Snapshot("b")
  /\ UNCHANGED conc

\* RingBuf b(a)
CopyConstructPeer ==
  /\ Idle
  /\ "b" \notin live
  /\ \E adr \in {BlockAdr("b"), NullPtr}, p \in BOOLEAN, es \in Junk :
       /\ rb' = [rb EXCEPT !["b"] = CopyConstruct(rb["a"], adr, p, es)]
       /\ fifo' = [fifo EXCEPT !["b"] =
                     IF valid(rb["a"]) /\ adr # NullPtr
                       THEN fifo["a"] ELSE << >>]
       /\ last' = Call("copyConstruct", "b", 0, Zero, adr, << >>, p, TRUE,
                       << >>, FALSE)
  /\ live' = live \union {"b"}
  /\ sent' = [sent EXCEPT !["b"] = Void]
  /\ pre' = Snapshot("b")
  /\ UNCHANGED conc

\* RingBuf b(std::move(a))
MoveConstructPeer ==
  /\ Idle
  /\ "b" \notin live
  /\ \E p \in BOOLEAN, es \in Junk :
       \E r \in {MoveConstruct(rb["a"], p, es)} :
         /\ rb' = [rb EXCEPT !["b"] = r.b, !["a"] = r.r]
         /\ last' = Call("moveConstruct", "b", 0, Zero, NullPtr, << >>, p,
                         TRUE, << >>, FALSE)
  /\ live' = live \union {"b"}
  /\ fifo' = [fifo EXCEPT !["b"] = fifo["a"], !["a"] = << >>]
  /\ sent' = [o \in Objs |-> Void]
  /\ pre' = Snapshot("b")
  /\ UNCHANGED conc

\* dst = src; the two blocks are apart, the two memcpy orders agree
Assign(dst) ==
  /\ Idle
  /\ live = Objs
  /\ \E r \in {CopyAssign(rb[dst], rb[Other(dst)], "whole")} :
       /\ rb' = [rb EXCEPT ![dst] = r.b]
       /\ last' = Call("copyAssign", dst, 0, Zero, NullPtr, << >>, FALSE,
                       r.ret, << >>, r.oob)
  /\ fifo' = [fifo EXCEPT ![dst] = RefAssign(dst, Other(dst))]
  /\ sent' = [sent EXCEPT ![dst] = Void]
  /\ pre' = Snapshot(dst)
  /\ UNCHANGED conc
  /\ UNCHANGED live

\* dst = std::move(src)
AssignMove(dst) ==
  /\ Idle
  /\ live = Objs
  /\ \E r \in {MoveAssign(rb[dst], rb[Other(dst)], "whole")} :
       /\ rb' = [rb EXCEPT ![dst] = r.b, ![Other(dst)] = r.r]
       /\ last' = Call("moveAssign", dst, 0, Zero, NullPtr, << >>, FALSE,
                       TRUE, << >>, r.oob)
  /\ fifo' = [fifo EXCEPT ![dst] = RefAssign(dst, Other(dst)),
                          ![Other(dst)] =
                            IF valid(rb[dst]) /\ valid(rb[Other(dst)])
                              THEN << >> ELSE @]
  /\ sent' = [o \in Objs |-> Void]
  /\ pre' = Snapshot(dst)
  /\ UNCHANGED conc
  /\ UNCHANGED live

\* ~RingBuf() of b, at the end of its scope
DestroyPeer ==
  /\ Idle
  /\ "b" \in live
  /\ rb' = [rb EXCEPT !["b"] = NoObject]
  /\ live' = live \ {"b"}
  /\ fifo' = [fifo EXCEPT !["b"] = << >>]
  /\ sent' = [sent EXCEPT !["b"] = Void]
  /\ last' = Call("destroy", "b", 0, Zero, NullPtr, << >>, FALSE, TRUE,
                  << >>, FALSE)
  /\ pre' = Snapshot("b")
  /\ UNCHANGED conc

NextPair ==
  \/ Return
  \/ (Scoped /\ Clear("a"))
  \/ (Scoped /\ Pop("a"))
  \/ (Scoped /\ Push("a"))
  \/ (Scoped /\ PushBulk("a"))
  \/ (Scoped /\ PushBulkRefused("a"))
  \/ (Scoped /\ SafeCopy("a"))
  \/ (Scoped /\ IndexedRead("a"))
  \/ ConstructPeer
  \/ CopyConstructPeer
  \/ MoveConstructPeer
  \/ Assign("a")
  \/ Assign("b")
  \/ AssignMove("a")
  \/ AssignMove("b")
  \/ DestroyPeer

SpecPair == Init /\ [][NextPair]_vars

\* ==================================================================== claims
\* The object and the state the last call worked on
Target == rb[last.o]
Before == pre.b

MutatingOps == {"clear", "pop", "push", "pushBulk", "safeCopy"}

\* The value a call returns when it refuses
FailureValue(op) == IF op \in {"pop", "safeCopy"} THEN 0 ELSE FALSE

\* C1: in every reachable state of a buffer, the size() elements read from
\* data() lie inside the allocated block of 2 * usable elements and are the
\* contents of the reference FIFO driven by the same calls, oldest first.
FlatReadIsFifo ==
  \A o \in live :
    /\ InBlock(rb[o], rb[o].begin, size(rb[o]))
    /\ data(rb[o]) = fifo[o]

\* C1 witness: a full buffer of the largest capacity whose occupied region
\* starts inside the first half and ends in the mirror half, after a push
WrappedFlatRead ==
  /\ last.op = "push"
  /\ valid(rb["a"])
  /\ rb["a"].usable = MaxUsable
  /\ rb["a"].begin > rb["a"].buffer
  /\ rb["a"].end > rb["a"].buffer + rb["a"].usable
  /\ size(rb["a"]) = MaxUsable
  /\ data(rb["a"]) = fifo["a"]
  /\ fifo["a"][1] # fifo["a"][MaxUsable]

\* C3: pushes (single or bulk) onto an empty valid buffer that total at most
\* usable elements are read back from data() in the order pushed, and
\* removing everything (snapshotCopy with consume, or pop) hands back exactly
\* those elements, none lost or duplicated, and empties the buffer.
RoundTrip ==
  /\ \A o \in live : sent[o].ok => data(rb[o]) = sent[o].q
  /\ (pre.sent.ok /\ valid(Before)) =>
       /\ (/\ last.op = "safeCopy"
           /\ last.mv
           /\ last.adr # NullPtr
           /\ last.n >= Len(pre.sent.q))
          => /\ last.out = pre.sent.q
             /\ last.ret = Len(pre.sent.q)
             /\ size(Target) = 0
       /\ (last.op = "pop" /\ last.n >= Len(pre.sent.q))
          => /\ last.ret = Len(pre.sent.q)
             /\ size(Target) = 0

\* C3 witness: a consuming snapshotCopy that took back a full buffer's worth
\* of pushes, not all equal
RoundTripDone ==
  /\ last.op = "safeCopy"
  /\ last.mv
  /\ pre.sent.ok
  /\ Len(pre.sent.q) = MaxUsable
  /\ last.out = pre.sent.q
  /\ last.out[1] # last.out[2]
  /\ size(rb["a"]) = 0

\* C4: with preserve = true, a push on a full buffer and a pushBulk of more
\* elements than capacity() return false and leave begin, end, size() and
\* the whole block as they were.
RefusedWhenPreserving ==
  (/\ last.op \in {"push", "pushBulk"}
   /\ valid(Before)
   /\ Before.preserve
   /\ last.n > capacity(Before))
  => /\ last.ret = FALSE
     /\ Target = Before

\* C4 witness: a refused pushBulk that would have fitted an empty buffer,
\* on a partly filled, rotated buffer
BulkRefusedPartlyFilled ==
  /\ last.op = "pushBulk"
  /\ last.adr = SrcAdr
  /\ valid(Before)
  /\ Before.preserve
  /\ Before.begin > Before.buffer
  /\ capacity(Before) > 0
  /\ last.n > capacity(Before)
  /\ last.n <= Before.usable
  /\ last.ret = FALSE
  /\ data(Target) = data(Before)

\* C5: with preserve = false, push(x) on a full buffer [e1, ..., eN],
\* N = usable >= 1, at any rotation offset, returns true, leaves size() at
\* usable and the content [e2, ..., eN, x].
PushEvictsOldest ==
  (/\ last.op = "push"
   /\ valid(Before)
   /\ ~Before.preserve
   /\ Before.usable >= 1
   /\ size(Before) = Before.usable)
  => /\ last.ret = TRUE
     /\ size(Target) = Target.usable
     /\ data(Target) = Tail(data(Before)) \o << last.c >>

\* C5 witness: the push that finds begin at the last slot of the first half
PushEvictsAtLastSlot ==
  /\ last.op = "push"
  /\ valid(Before)
  /\ ~Before.preserve
  /\ Before.usable = MaxUsable
  /\ size(Before) = Before.usable
  /\ Before.begin = Before.buffer + Before.usable - 1
  /\ last.ret = TRUE
  /\ data(Before)[1] # data(Before)[2]

\* C6: with preserve = false, a pushBulk of k > usable elements onto a valid
\* buffer in any state returns true and leaves exactly the last usable
\* elements of the batch, in order.
BulkKeepsLastUsable ==
  (/\ last.op = "pushBulk"
   /\ last.adr = SrcAdr
   /\ valid(Before)
   /\ ~Before.preserve
   /\ last.n > Before.usable)
  => /\ last.ret = TRUE
     /\ size(Target) = Target.usable
     /\ data(Target) = LastN(last.d, Before.usable)

\* C6 witness: an oversized batch onto a partly filled, rotated buffer of
\* the largest capacity
BulkOversizedOnRotated ==
  /\ last.op = "pushBulk"
  /\ last.adr = SrcAdr
  /\ valid(Before)
  /\ ~Before.preserve
  /\ Before.usable = MaxUsable
  /\ last.n > Before.usable
  /\ Before.begin > Before.buffer
  /\ size(Before) > 0
  /\ size(Before) < Before.usable
  /\ last.d[1] # last.d[2]
  /\ last.ret = TRUE

\* C7: pop(n) on a valid buffer holding s elements returns 0 and changes
\* nothing when s = 0, empties the buffer and returns s when n >= s, and
\* otherwise returns n and leaves the s - n newest elements in order.
PopRemovesOldest ==
  (last.op = "pop" /\ valid(Before))
  => IF size(Before) = 0
       THEN last.ret = 0 /\ Target = Before
       ELSE IF last.n >= size(Before)
         THEN last.ret = size(Before) /\ size(Target) = 0
         ELSE /\ last.ret = last.n
              /\ data(Target) =
                   SubSeq(data(Before), last.n + 1, size(Before))

\* C7 witness: a partial pop that carries begin across storage + usable
PopPartlyAcrossWrap ==
  /\ last.op = "pop"
  /\ valid(Before)
  /\ last.n > 0
  /\ last.n < size(Before)
  /\ Before.begin + last.n >= Before.buffer + Before.usable
  /\ last.ret = last.n
  /\ size(Target) = size(Before) - last.n

\* Does the source range [adr, adr + n) share an element with b's block?
Overlaps(b, adr, n) ==
  \E q \in adr..(adr + n - 1) : (q - b.buffer) \in DOMAIN b.mem

\* C8: pushBulk returns false and changes neither cursors nor storage
\* whenever count = 0, the source is null, or the source range overlaps the
\* buffer's own block, also when it starts below the block.
BulkRefusesBadSource ==
  (/\ last.op = "pushBulk"
   /\ valid(Before)
   /\ \/ last.n = 0
      \/ last.adr = NullPtr
      \/ Overlaps(Before, last.adr, last.n))
  => /\ last.ret = FALSE
     /\ Target = Before

\* C9: a construction whose allocation fails installs the sentinel, and a
\* buffer on the sentinel reports valid() = false, capacity() = 0,
\* size() = 0, empty() = true, and every mutating call on it returns its
\* failure value and changes nothing.
FailedBufferInert ==
  /\ (last.op = "construct" /\ last.adr = NullPtr) => Target.buffer = NilAdr
  /\ \A o \in live :
       rb[o].buffer = NilAdr =>
         /\ ~valid(rb[o])
         /\ capacity(rb[o]) = 0
         /\ size(rb[o]) = 0
         /\ empty(rb[o])
         /\ (last.o = o /\ last.op \in MutatingOps) =>
              /\ last.ret = FailureValue(last.op)
              /\ rb[o] = pre.b
              /\ last.out = << >>
              /\ ~last.oob

\* C9 witness: a push refused by a buffer whose allocation failed
PushOnFailedBuffer ==
  /\ last.op = "push"
  /\ rb["a"].buffer = NilAdr
  /\ last.ret = FALSE
  /\ rb["a"] = pre.b

\* C2: after every completed operation (construct, clear, pop, push,
\* pushBulk, snapshotCopy, copy, move), on every object,
\* 0 <= end - begin <= usable.
SizeWithinUsable ==
  \A o \in live : 0 <= size(rb[o]) /\ size(rb[o]) <= rb[o].usable

\* C2 witness: a move assignment that filled the destination to its
\* capacity out of a rotated source
MoveAssignFilled ==
  /\ last.op = "moveAssign"
  /\ valid(Target)
  /\ Target.usable > 1
  /\ size(Target) = Target.usable
  /\ pre.r.begin > pre.r.buffer

\* C10: after a move from a valid source the source reports valid() =
\* false, capacity() = 0, size() = 0 and empty() = true, and every mutating
\* call on it returns its failure value.
MovedFromIsInvalidEmpty ==
  \A o \in live :
    rb[o].buffer = NullPtr =>
      /\ ~valid(rb[o])
      /\ capacity(rb[o]) = 0
      /\ size(rb[o]) = 0
      /\ empty(rb[o])
      /\ (last.o = o /\ last.op \in MutatingOps) =>
           last.ret = FailureValue(last.op)

\* C11: after dst = src with both valid and distinct, dst == src holds, the
\* content read from dst is the content of src, and src is as it was,
\* whatever the capacities, the policy of dst and the rotations.
CopyAssignEqualises ==
  (/\ last.op = "copyAssign"
   /\ valid(pre.b)
   /\ valid(pre.r))
  => /\ Equals(Target, rb[Other(last.o)])
     /\ data(Target) = data(pre.r)
     /\ rb[Other(last.o)] = pre.r

\* ------------------------------------------- two buffers side by side
\* Both objects are constructed at the start and pushed to and popped from
\* independently, so that they meet at every pair of capacities, policies,
\* rotations and contents.  The blocks hold the two values and the cells
\* never written: the capacities stay one below MaxUsable to keep the
\* pairs of blocks countable.
TwinSizes == 0..(MaxUsable - 1)

InitTwin ==
  \E sa \in TwinSizes, sb \in TwinSizes, pa \in BOOLEAN, pb \in BOOLEAN,
     adr \in {BlockAdr("b"), NullPtr} :
    /\ rb = [o \in Objs |-> IF o = "a" THEN Construct(sa, pa, BlockAdr("a"))
                            ELSE Construct(sb, pb, adr)]
    /\ live = Objs
    /\ fifo = [o \in Objs |-> << >>]
    /\ sent = [o \in Objs |-> Void]
    /\ last = Call("construct", "b", sb, Zero, adr, << >>, pb, TRUE, << >>,
                   FALSE)
    /\ pre = Snapshot("b")
    /\ conc = NoThreads

\* o == other, its result in ret
Compare(o) ==
  /\ Idle
  /\ live = Objs
  /\ last' = Call("equals", o, 0, Zero, NullPtr, << >>, FALSE,
                  Equals(rb[o], rb[Other(o)]), << >>, FALSE)
  /\ pre' = Snapshot(o)
  /\ UNCHANGED conc
  /\ UNCHANGED << rb, live, fifo, sent >>

\* a.push_back(x); b.push_back(y): d holds the two elements, out the two
\* results
PushTwins ==
  /\ Idle
  /\ live = Objs
  /\ \E x \in Vals, y \in Vals :
       \E ra \in {push_back(rb["a"], x)}, r \in {push_back(rb["b"], y)} :
         /\ rb' = [rb EXCEPT !["a"] = ra.b, !["b"] = r.b]
         /\ fifo' = [o \in Objs |->
                       IF valid(rb[o])
                         THEN RefPush(fifo[o], rb[o].usable, rb[o].preserve,
                                      IF o = "a" THEN << x >> ELSE << y >>)
                         ELSE fifo[o]]
         /\ last' = Call("pushTwins", "a", 1, Zero, NullPtr, << x, y >>,
                         FALSE, ra.ret /\ r.ret, << ra.ret, r.ret >>,
                         ra.oob \/ r.oob)
  /\ sent' = [o \in Objs |-> Void]
  /\ pre' = Snapshot("a")
  /\ UNCHANGED conc
  /\ UNCHANGED live

NextTwin ==
  \/ Return
  \/ Push("a")
  \/ Push("b")
  \/ Pop("a")
  \/ Pop("b")
  \/ PushTwins
  \/ Compare("a")
  \/ Compare("b")

SpecTwin == InitTwin /\ [][NextTwin]_vars

\* Two buffers of identical capacity and policy that were fed the same
\* pushes: the same members, but for the address of the block
SameFeed(x, y) ==
  /\ x.usable = y.usable
  /\ x.preserve = y.preserve
  /\ x.begin - x.buffer = y.begin - y.buffer
  /\ x.end - x.buffer = y.end - y.buffer
  /\ x.mem = y.mem

\* operator== answers whether both are valid and hold the same sequence
EqualsIsSameContent ==
  last.op = "equals" =>
    last.ret = (/\ valid(Target)
                /\ valid(rb[Other(last.o)])
                /\ fifo[last.o] = fifo[Other(last.o)])

\* C12: equals(other) is true iff both buffers are valid and hold the same
\* elements in the same order, whatever their rotations and capacities; two
\* buffers of identical capacity and policy fed the same pushes compare
\* equal, stay equal when pushed the same element, and compare unequal
\* after one further, different push to each that both accept into a
\* capacity of at least one element.
EqualsIffSameContent ==
  /\ EqualsIsSameContent
  /\ (/\ last.op = "pushTwins"
      /\ valid(pre.b)
      /\ SameFeed(pre.b, pre.r))
     => /\ Equals(pre.b, pre.r)
        /\ last.d[1] = last.d[2] => Equals(rb["a"], rb["b"])
        /\ (/\ last.d[1] # last.d[2]
            /\ last.ret
            /\ pre.b.usable >= 1)
           => ~Equals(rb["a"], rb["b"])

\* C12 witness: a comparison that found two buffers equal which hold the
\* same two different elements at different rotations
EqualAcrossRotation ==
  /\ last.op = "equals"
  /\ last.ret = TRUE
  /\ size(rb["a"]) = MaxUsable - 1
  /\ rb["a"].begin - rb["a"].buffer # rb["b"].begin - rb["b"].buffer
  /\ data(rb["a"])[1] # data(rb["a"])[2]

\* C12 as stated: after one further, different push to each of two such
\* buffers they compare unequal, in every case.
EqualsTellsPushesApart ==
  /\ EqualsIsSameContent
  /\ (/\ last.op = "pushTwins"
      /\ valid(pre.b)
      /\ SameFeed(pre.b, pre.r))
     => /\ Equals(pre.b, pre.r)
        /\ last.d[1] = last.d[2] => Equals(rb["a"], rb["b"])
        /\ last.d[1] # last.d[2] => ~Equals(rb["a"], rb["b"])

\* C13: operator[] at index i < size() returns the i-th element counted
\* from the oldest, reading one offset inside [0, 2 * usable); at
\* i >= size(), or on a buffer that is not valid, it returns the zero value
\* and reads nothing.  It changes nothing.
IndexedReadInBounds ==
  last.op = "at" =>
    /\ Target = Before
    /\ IF valid(Before) /\ last.n < size(Before)
         THEN /\ last.c = fifo[last.o][last.n + 1]
              /\ Len(last.out) = 1
              /\ last.out[1] \in 0..(2 * Before.usable - 1)
         ELSE /\ last.c = Zero
              /\ last.out = << >>

\* C13 witness: a read of the newest element of a full buffer out of the
\* mirror half
IndexedReadInMirror ==
  /\ last.op = "at"
  /\ valid(Before)
  /\ size(Before) = MaxUsable
  /\ last.n = MaxUsable - 1
  /\ last.out = << Before.begin + last.n - Before.buffer >>
  /\ last.out[1] >= Before.usable
  /\ last.c \in Vals
  /\ last.c # At(Before, 0)

\* C14: safeCopy(target, maxCount, consume) on a valid buffer with a target
\* that is not null returns c = min(maxCount, size()) and writes the c
\* oldest elements to target in order; without consume the buffer is as it
\* was, with consume the c oldest elements are gone and the rest remain in
\* order; on a buffer that is not valid or with a null target it returns 0,
\* writes nothing and changes nothing.
SnapshotCopiesOldest ==
  last.op = "safeCopy" =>
    IF valid(Before) /\ last.adr # NullPtr
      THEN LET c == Min(last.n, size(Before))
           IN /\ last.ret = c
              /\ last.out = SubSeq(data(Before), 1, c)
              /\ IF last.mv
                   THEN /\ size(Target) = size(Before) - c
                        /\ data(Target) =
                             SubSeq(data(Before), c + 1, size(Before))
                   ELSE Target = Before
      ELSE /\ last.ret = 0
           /\ last.out = << >>
           /\ Target = Before

\* C14 witness: a consuming copy of part of a rotated, full buffer
SnapshotConsumedPart ==
  /\ last.op = "safeCopy"
  /\ last.mv
  /\ valid(Before)
  /\ size(Before) = MaxUsable
  /\ Before.begin > Before.buffer
  /\ last.n = MaxUsable - 1
  /\ last.ret = last.n
  /\ last.out[1] # last.out[2]
  /\ size(Target) = 1

\* ============================================================== two threads
\* A producer thread and a consumer thread call into object a.  A thread
\* takes one step at a time.  The code between LOCK_GUARD and the end of its
\* scope runs with the mutex held; the producer's scope is split at every
\* write of begin or end, because the consumer reads the cursors in pop
\* without the mutex.  The consumer's scopes write the cursors only while
\* the producer is outside its own scope and reads no cursor.
Shared == rb["a"]

\* The cursors are not those that calls made one after the other leave
\* behind: begin inside the first half, and 0 <= end - begin <= usable
Corrupt(b) ==
  /\ valid(b)
  /\ ~(/\ b.begin >= b.buffer
        /\ b.begin < b.buffer + b.usable
        /\ 0 <= size(b)
        /\ size(b) <= b.usable)

\* A thread starts its next call unless some scope has left the cursors
\* corrupt: the calls running by then still finish.  This keeps the
\* cursors from drifting without bound.
Sound == ~conc.broken

\* A step of a thread: the threads and the object afterwards
ThreadStep(t, b) ==
  /\ conc' = [t EXCEPT !.broken = @ \/ (t.mutex = "free" /\ Corrupt(b))]
  /\ rb' = [rb EXCEPT !["a"] = b]
  /\ UNCHANGED << live, fifo, sent, last, pre >>

\* The address of the occupied region of the object a is assigned from
AssignSrcAdr == BlockAdr("b")

\* The arrays the producer passes
BulkArrays == {[i \in 1..n |-> 1] : n \in 0..(MaxUsable - 1)}

\* ------------------------------------------------------------ the producer
\* push_back(c) up to the LOCK_GUARD
ProducerPush ==
  /\ conc.p.pc = "idle"
  /\ Sound
  /\ \E c \in Vals :
       ThreadStep([conc EXCEPT !.p =
                     IF ~valid(Shared)
                       THEN [IdleProducer EXCEPT !.pc = "done", !.op = "push"]
                       ELSE [IdleProducer EXCEPT !.pc = "push_lock",
                                                 !.op = "push", !.c = c]],
                  Shared)

ProducerPushLock ==
  /\ conc.p.pc = "push_lock"
  /\ conc.mutex = "free"
  /\ ThreadStep([conc EXCEPT !.mutex = "prod", !.p.pc = "push_room"], Shared)

\* if (capacity() == 0) { if (preserve) return false; begin++;
ProducerPushRoom ==
  /\ conc.p.pc = "push_room"
  /\ IF capacity(Shared) = 0
       THEN IF Shared.preserve
              THEN ThreadStep([conc EXCEPT !.mutex = "free", !.p.pc = "done",
                                           !.p.ret = FALSE], Shared)
              ELSE ThreadStep([conc EXCEPT !.p.pc = "push_wrap"],
                              [Shared EXCEPT !.begin = Shared.begin + 1])
       ELSE ThreadStep([conc EXCEPT !.p.pc = "push_add"], Shared)

\* if (begin >= (buffer + usable)) { begin = buffer;
ProducerPushWrap ==
  /\ conc.p.pc = "push_wrap"
  /\ IF Shared.begin >= (Shared.buffer + Shared.usable)
       THEN ThreadStep([conc EXCEPT !.p.pc = "push_wrap2"],
                       [Shared EXCEPT !.begin = Shared.buffer])
       ELSE ThreadStep([conc EXCEPT !.p.pc = "push_add"], Shared)

\* end = begin + usable - 1; }
ProducerPushWrap2 ==
  /\ conc.p.pc = "push_wrap2"
  /\ ThreadStep([conc EXCEPT !.p.pc = "push_add"],
                [Shared EXCEPT !.end = Shared.begin + Shared.usable - 1])

\* *end = c; the mirrored write; end++; and the end of the scope
ProducerPushAdd ==
  /\ conc.p.pc = "push_add"
  /\ ThreadStep([conc EXCEPT !.mutex = "free", !.p.pc = "done",
                             !.p.ret = TRUE],
                AddElement(Shared, conc.p.c).b)

\* The producer after push_back(data, size) has tested its arguments
BulkEntry(op, d, base) ==
  IF ~valid(Shared) \/ base = NullPtr \/ Len(d) = 0
       \/ SelfReferencing(Shared, base)
    THEN [IdleProducer EXCEPT !.pc = "done", !.op = op]
    ELSE [IdleProducer EXCEPT !.pc = "bulk_lock", !.op = op, !.d = d,
                              !.base = base, !.adr = base, !.sz = Len(d)]

\* push_back(data, size) up to the LOCK_GUARD
ProducerBulk ==
  /\ conc.p.pc = "idle"
  /\ Sound
  /\ \E d \in BulkArrays :
       ThreadStep([conc EXCEPT !.p = BulkEntry("pushBulk", d, SrcAdr)],
                  Shared)

ProducerBulkLock ==
  /\ conc.p.pc = "bulk_lock"
  /\ conc.mutex = "free"
  /\ ThreadStep([conc EXCEPT !.mutex = "prod", !.p.pc = "bulk_room"], Shared)

\* if (size > capacity()) { if (preserve) return false; the clipping of
\* data and size; begin += size - capacity();
ProducerBulkRoom ==
  /\ conc.p.pc = "bulk_room"
  /\ IF conc.p.sz > capacity(Shared)
       THEN IF Shared.preserve
              THEN ThreadStep([conc EXCEPT !.mutex = "free", !.p.pc = "done",
                                           !.p.ret = FALSE], Shared)
              ELSE LET clip == conc.p.sz > Shared.usable
                       adr1 == IF clip
                                 THEN conc.p.adr + (conc.p.sz - Shared.usable)
                                 ELSE conc.p.adr
                       sz1 == IF clip THEN Shared.usable ELSE conc.p.sz
                   IN ThreadStep([conc EXCEPT !.p.pc = "bulk_wrap",
                                              !.p.adr = adr1, !.p.sz = sz1],
                                 [Shared EXCEPT !.begin =
                                    Shared.begin + (sz1 - capacity(Shared))])
       ELSE ThreadStep([conc EXCEPT !.p.pc = "bulk_copy"], Shared)

\* if (begin >= (buffer + usable)) { begin -= usable;
ProducerBulkWrap ==
  /\ conc.p.pc = "bulk_wrap"
  /\ IF Shared.begin >= (Shared.buffer + Shared.usable)
       THEN ThreadStep([conc EXCEPT !.p.pc = "bulk_wrap2"],
                       [Shared EXCEPT !.begin = Shared.begin - Shared.usable])
       ELSE ThreadStep([conc EXCEPT !.p.pc = "bulk_copy"], Shared)

\* end -= usable; }
ProducerBulkWrap2 ==
  /\ conc.p.pc = "bulk_wrap2"
  /\ ThreadStep([conc EXCEPT !.p.pc = "bulk_copy"],
                [Shared EXCEPT !.end = Shared.end - Shared.usable])

\* the memcpy calls, end += size, and the end of the scope
ProducerBulkCopy ==
  /\ conc.p.pc = "bulk_copy"
  /\ ThreadStep([conc EXCEPT !.mutex = "free", !.p.pc = "done",
                             !.p.ret = TRUE],
                CopyIn(Shared, conc.p.adr, conc.p.sz, conc.p.base, conc.p.d,
                       "whole").b)

\* a = r for a valid r holding d: up to the LOCK_GUARD of clear()
ProducerAssign ==
  /\ conc.p.pc = "idle"
  /\ Sound
  /\ \E d \in BulkArrays :
       ThreadStep([conc EXCEPT !.p =
                     IF ~valid(Shared)
                       THEN [IdleProducer EXCEPT !.pc = "done",
                                                 !.op = "copyAssign"]
                       ELSE [IdleProducer EXCEPT !.pc = "asg_lock",
                                                 !.op = "copyAssign",
                                                 !.d = d]],
                  Shared)

ProducerAssignLock ==
  /\ conc.p.pc = "asg_lock"
  /\ conc.mutex = "free"
  /\ ThreadStep([conc EXCEPT !.mutex = "prod", !.p.pc = "asg_clear"], Shared)

\* begin = end = buffer, the end of clear(), and push_back(r.begin, ...) up
\* to its LOCK_GUARD
ProducerAssignClear ==
  /\ conc.p.pc = "asg_clear"
  /\ ThreadStep([conc EXCEPT !.mutex = "free",
                             !.p = BulkEntry("copyAssign", conc.p.d,
                                             AssignSrcAdr)],
                clear(Shared).b)

\* The call returns to the producer's code
ProducerReturn ==
  /\ conc.p.pc = "done"
  /\ ThreadStep([conc EXCEPT !.p = IdleProducer], Shared)

\* ------------------------------------------------------------ the consumer
\* The elements a removal of n elements takes out of b
Taken(b, n) == SubSeq(data(b), 1, Min(n, size(b)))

\* The consumer when pop(n) has found the buffer valid
PopEntry(op, n, mv, out) ==
  [IdleConsumer EXCEPT !.pc = "pop_if", !.op = op, !.n = n, !.mv = mv,
                       !.out = out]

\* pop(numElements) up to its first size()
ConsumerPop ==
  /\ conc.c.pc = "idle"
  /\ Sound
  /\ \E n \in Counts :
       ThreadStep([conc EXCEPT !.c =
                     IF ~valid(Shared)
                       THEN [IdleConsumer EXCEPT !.pc = "done", !.op = "pop"]
                       ELSE PopEntry("pop", n, FALSE, << >>)],
                  Shared)

\* size() outside the mutex loads begin and end one after the other, in
\* the order the build chose: the first of the two loads
ConsumerSizeLoad ==
  /\ conc.c.pc \in {"pop_if", "pop_cmp", "pop_cnt"}
  /\ conc.c.ld = NoLoad
  /\ \E which \in {"begin", "end"} :
       ThreadStep([conc EXCEPT !.c.ld =
                     [which |-> which,
                      val |-> IF which = "begin" THEN Shared.begin
                              ELSE Shared.end]],
                  Shared)

\* The value of the size() in progress once the other cursor is loaded
SizeLoaded ==
  IF conc.c.ld.which = "begin"
    THEN ToSize(Shared.end - conc.c.ld.val)
    ELSE ToSize(conc.c.ld.val - Shared.begin)

\* if (size()) ... else return 0
ConsumerPopIfData ==
  /\ conc.c.pc = "pop_if"
  /\ conc.c.ld # NoLoad
  /\ ThreadStep([conc EXCEPT !.c.ld = NoLoad,
                             !.c.pc = IF SizeLoaded # 0 THEN "pop_cmp"
                                      ELSE "done",
                             !.c.ret = IF conc.c.op = "safeCopy"
                                         THEN conc.c.n ELSE 0],
                Shared)

\* if (numElements >= size())
ConsumerPopCompare ==
  /\ conc.c.pc = "pop_cmp"
  /\ conc.c.ld # NoLoad
  /\ ThreadStep([conc EXCEPT !.c.ld = NoLoad,
                             !.c.pc = IF conc.c.n >= SizeLoaded THEN "pop_cnt"
                                      ELSE "pop_lock"],
                Shared)

\* size_t n = size(); and clear() up to its LOCK_GUARD
ConsumerPopCount ==
  /\ conc.c.pc = "pop_cnt"
  /\ conc.c.ld # NoLoad
  /\ ThreadStep([conc EXCEPT !.c.ld = NoLoad, !.c.cnt = SizeLoaded,
                             !.c.pc = "clr_lock"],
                Shared)

\* clear() up to its LOCK_GUARD
ConsumerClear ==
  /\ conc.c.pc = "idle"
  /\ Sound
  /\ ThreadStep([conc EXCEPT !.c =
                   IF ~valid(Shared)
                     THEN [IdleConsumer EXCEPT !.pc = "done", !.op = "clear"]
                     ELSE [IdleConsumer EXCEPT !.pc = "clr_lock",
                                               !.op = "clear"]],
                Shared)

ConsumerClearLock ==
  /\ conc.c.pc = "clr_lock"
  /\ conc.mutex = "free"
  /\ ThreadStep([conc EXCEPT !.mutex = "cons", !.c.pc = "clr_body"], Shared)

\* begin = end = buffer, the end of the scope, and the return of the call
\* that ran clear(): pop returns its n, safeCopy its len
ConsumerClearBody ==
  /\ conc.c.pc = "clr_body"
  /\ ThreadStep([conc EXCEPT !.mutex = "free", !.c.pc = "done",
                             !.c.gone = Taken(Shared, size(Shared)),
                             !.c.ret = IF conc.c.op = "pop" THEN conc.c.cnt
                                       ELSE IF conc.c.op = "safeCopy"
                                         THEN conc.c.n
                                         ELSE 1],
                clear(Shared).b)

ConsumerPopLock ==
  /\ conc.c.pc = "pop_lock"
  /\ conc.mutex = "free"
  /\ ThreadStep([conc EXCEPT !.mutex = "cons", !.c.pc = "pop_adv"], Shared)

\* begin += numElements;
ConsumerPopAdvance ==
  /\ conc.c.pc = "pop_adv"
  /\ ThreadStep([conc EXCEPT !.c.pc = "pop_wrap",
                             !.c.gone = Taken(Shared, conc.c.n)],
                [Shared EXCEPT !.begin = Shared.begin + conc.c.n])

\* if (begin >= (buffer + usable)) { begin -= usable; end -= usable; }, the
\* end of the scope, and return numElements
ConsumerPopWrap ==
  /\ conc.c.pc = "pop_wrap"
  /\ ThreadStep([conc EXCEPT !.mutex = "free", !.c.pc = "done",
                             !.c.ret = conc.c.n],
                IF Shared.begin >= (Shared.buffer + Shared.usable)
                  THEN [Shared EXCEPT !.begin = Shared.begin - Shared.usable,
                                      !.end = Shared.end - Shared.usable]
                  ELSE Shared)

\* safeCopy(target, len, move) with a target that is not null, up to its
\* LOCK_GUARD
ConsumerCopy ==
  /\ conc.c.pc = "idle"
  /\ Sound
  /\ \E len \in Counts, move \in BOOLEAN :
       ThreadStep([conc EXCEPT !.c =
                     IF ~valid(Shared)
                       THEN [IdleConsumer EXCEPT !.pc = "done",
                                                 !.op = "safeCopy"]
                       ELSE [IdleConsumer EXCEPT !.pc = "sc_lock",
                                                 !.op = "safeCopy",
                                                 !.n = len, !.mv = move]],
                  Shared)

ConsumerCopyLock ==
  /\ conc.c.pc = "sc_lock"
  /\ conc.mutex = "free"
  /\ ThreadStep([conc EXCEPT !.mutex = "cons", !.c.pc = "sc_body"], Shared)

\* safeCopy without the braces around its LOCK_GUARD: pop(len) is called
\* with the mutex still held
ConsumerCopyBodyUnscoped ==
  /\ conc.c.pc = "sc_body"
  /\ LET len == IF conc.c.n > ToSize(size(Shared)) THEN ToSize(size(Shared))
                ELSE conc.c.n
         copied == [i \in 1..len |-> ReadAt(Shared, Shared.begin + i - 1)]
     IN ThreadStep([conc EXCEPT !.mutex = IF conc.c.mv THEN "cons" ELSE "free",
                                !.c = IF conc.c.mv
                                        THEN PopEntry("safeCopy", len, TRUE,
                                                      copied)
                                        ELSE [conc.c EXCEPT !.pc = "done",
                                                            !.n = len,
                                                            !.out = copied,
                                                            !.ret = len]],
                   Shared)

\* if (len > size()) len = size(); memcpy(target, begin, len); the end of
\* the scope; if (move) pop(len) up to its first size(); else return len
ConsumerCopyBody ==
  /\ conc.c.pc = "sc_body"
  /\ LET len == IF conc.c.n > ToSize(size(Shared)) THEN ToSize(size(Shared))
                ELSE conc.c.n
         copied == [i \in 1..len |-> ReadAt(Shared, Shared.begin + i - 1)]
     IN ThreadStep([conc EXCEPT !.mutex = "free",
                                !.c = IF conc.c.mv
                                        THEN PopEntry("safeCopy", len, TRUE,
                                                      copied)
                                        ELSE [conc.c EXCEPT !.pc = "done",
                                                            !.n = len,
                                                            !.out = copied,
                                                            !.ret = len]],
                   Shared)

\* The call returns to the consumer's code
ConsumerReturn ==
  /\ conc.c.pc = "done"
  /\ ThreadStep([conc EXCEPT !.c = IdleConsumer], Shared)

\* ------------------------------------------------------- the two programs
\* The capacities of the shared buffer: at least one element
ThreadSizes == 1..MaxUsable

InitThreads ==
  \E sz \in ThreadSizes, p \in BOOLEAN :
    /\ rb = [o \in Objs |-> IF o = "a" THEN Construct(sz, p, BlockAdr("a"))
                            ELSE NoObject]
    /\ live = {"a"}
    /\ fifo = [o \in Objs |-> << >>]
    /\ sent = [o \in Objs |-> Void]
    /\ last = NoCall
    /\ pre = NoSnapshot
    /\ conc = NoThreads

\* push_back(c) by the producer
ProducerPushes ==
  \/ ProducerPush
  \/ ProducerPushLock
  \/ ProducerPushRoom
  \/ ProducerPushWrap
  \/ ProducerPushWrap2
  \/ ProducerPushAdd
  \/ ProducerReturn

\* pop by the consumer
ConsumerPops ==
  \/ ConsumerPop
  \/ ConsumerSizeLoad
  \/ ConsumerPopIfData
  \/ ConsumerPopCompare
  \/ ConsumerPopCount
  \/ ConsumerClearLock
  \/ ConsumerClearBody
  \/ ConsumerPopLock
  \/ ConsumerPopAdvance
  \/ ConsumerPopWrap
  \/ ConsumerReturn

\* push_back(data, size) by the producer
ProducerBulks ==
  \/ ProducerBulk
  \/ ProducerBulkLock
  \/ ProducerBulkRoom
  \/ ProducerBulkWrap
  \/ ProducerBulkWrap2
  \/ ProducerBulkCopy

\* A producer that pushes elements and batches, a consumer that pops
NextPushPop == ProducerPushes \/ ProducerBulks \/ ConsumerPops

SpecPushPop == InitThreads /\ [][NextPushPop]_vars

\* ====================================================== claims on threads
\* C15: with a producer in push / pushBulk and a consumer in pop on a valid
\* buffer, whenever no thread is inside a LOCK_GUARD scope the cursors
\* satisfy 0 <= end - begin <= usable, and pop's begin += numElements never
\* carries begin beyond end.
CursorsStayOrdered ==
  valid(Shared) =>
    /\ conc.mutex = "free" =>
         (0 <= size(Shared) /\ size(Shared) <= Shared.usable)
    /\ conc.c.pc = "pop_wrap" => Shared.begin <= Shared.end

\* C16: the value pop(n) returns is the number of elements that call took
\* out of the buffer, also when the producer pushed between pop's size()
\* and its locked update or its clear().
PopReturnsRemoved ==
  (conc.c.pc = "done" /\ conc.c.op = "pop") =>
    conc.c.ret = Len(conc.c.gone)

\* safeCopy by the consumer, with the pop it runs when move is set
ConsumerCopies ==
  \/ ConsumerCopy
  \/ ConsumerCopyLock
  \/ ConsumerCopyBody
  \/ ConsumerSizeLoad
  \/ ConsumerPopIfData
  \/ ConsumerPopCompare
  \/ ConsumerPopCount
  \/ ConsumerClearLock
  \/ ConsumerClearBody
  \/ ConsumerPopLock
  \/ ConsumerPopAdvance
  \/ ConsumerPopWrap
  \/ ConsumerReturn

\* A producer that pushes single elements, a consumer that copies out
NextPushCopy == ProducerPushes \/ ConsumerCopies

SpecPushCopy == InitThreads /\ [][NextPushCopy]_vars

\* C17: with a producer in push and a consumer in safeCopy(target, len,
\* true), under either policy, the elements a safeCopy call takes out of
\* the buffer are exactly the elements it copied to target.
CopyTakesWhatItCopied ==
  (conc.c.pc = "done" /\ conc.c.op = "safeCopy" /\ conc.c.mv) =>
    conc.c.gone = conc.c.out

\* ------------------------------------------------- every call, scheduled
\* The capacities of the buffer both threads run every call on
FairSizes == 1..(MaxUsable - 2)

InitFair ==
  \E sz \in FairSizes, p \in BOOLEAN :
    /\ rb = [o \in Objs |-> IF o = "a" THEN Construct(sz, p, BlockAdr("a"))
                            ELSE NoObject]
    /\ live = {"a"}
    /\ fifo = [o \in Objs |-> << >>]
    /\ sent = [o \in Objs |-> Void]
    /\ last = NoCall
    /\ pre = NoSnapshot
    /\ conc = NoThreads

\* The producer enters a call
ProducerCalls ==
  \/ ProducerPush
  \/ ProducerBulk
  \/ ProducerAssign

\* std::lock_guard's constructor in the producer: m.lock()
ProducerLocks ==
  \/ ProducerPushLock
  \/ ProducerBulkLock
  \/ ProducerAssignLock

\* The producer's steps that wait for nothing
ProducerRuns ==
  \/ ProducerPushRoom
  \/ ProducerPushWrap
  \/ ProducerPushWrap2
  \/ ProducerPushAdd
  \/ ProducerBulkRoom
  \/ ProducerBulkWrap
  \/ ProducerBulkWrap2
  \/ ProducerBulkCopy
  \/ ProducerAssignClear
  \/ ProducerReturn

\* The consumer enters a call
ConsumerCalls ==
  \/ ConsumerPop
  \/ ConsumerClear
  \/ ConsumerCopy

\* std::lock_guard's constructor in the consumer: m.lock()
ConsumerLocks ==
  \/ ConsumerClearLock
  \/ ConsumerPopLock
  \/ ConsumerCopyLock

\* The consumer's steps that wait for nothing
ConsumerRuns ==
  \/ ConsumerSizeLoad
  \/ ConsumerPopIfData
  \/ ConsumerPopCompare
  \/ ConsumerPopCount
  \/ ConsumerClearBody
  \/ ConsumerPopAdvance
  \/ ConsumerPopWrap
  \/ ConsumerCopyBody
  \/ ConsumerReturn

NextFair ==
  \/ ProducerCalls
  \/ ProducerLocks
  \/ ProducerRuns
  \/ ConsumerCalls
  \/ ConsumerLocks
  \/ ConsumerRuns

\* Scheduling: a thread that can run does run (weak fairness), and a thread
\* waiting in m.lock() gets the mutex if it is released again and again
\* (strong fairness).  Nothing obliges a thread to enter a call.
FairThreads ==
  /\ WF_vars(ProducerRuns)
  /\ SF_vars(ProducerLocks)
  /\ WF_vars(ConsumerRuns)
  /\ SF_vars(ConsumerLocks)

SpecFair == InitFair /\ [][NextFair]_vars /\ FairThreads

\* A thread is in m.lock() while it holds m itself: std::mutex is not
\* recursive, the thread would wait for ever
Relocks ==
  \/ conc.mutex = "prod" /\ conc.p.pc \in {"push_lock", "bulk_lock", "asg_lock"}
  \/ conc.mutex = "cons" /\ conc.c.pc \in {"clr_lock", "pop_lock", "sc_lock"}

\* A thread outside every call holds the mutex
KeepsMutex ==
  \/ conc.mutex = "prod" /\ conc.p.pc \in {"idle", "done"}
  \/ conc.mutex = "cons" /\ conc.c.pc \in {"idle", "done"}

\* C18: no operation blocks for ever.  No call, pop's clear(), safeCopy's
\* pop() and operator='s clear() and push_back() included, locks the mutex
\* while its thread holds it; a call that has completed has released the
\* mutex; and with a producer and a consumer under fair scheduling every call
\* that was started completes and every holder of the mutex releases it.
NoOperationBlocks ==
  /\ [](~Relocks /\ ~KeepsMutex)
  /\ (conc.p.pc # "idle") ~> (conc.p.pc = "done")
  /\ (conc.c.pc # "idle") ~> (conc.c.pc = "done")
  /\ (conc.mutex # "free") ~> (conc.mutex = "free")

\* Witness for C18: safeCopy's pop() has gone through clear() and completed
\* with the mutex released, while the producer's operator= waits in the
\* m.lock() of its push_back
DelegatedCallsCompleted ==
  /\ conc.c.pc = "done"
  /\ conc.c.op = "safeCopy"
  /\ conc.c.mv
  /\ Len(conc.c.gone) > 0
  /\ conc.p.op = "copyAssign"
  /\ conc.p.pc = "bulk_lock"
  /\ conc.mutex = "free"

\* =================================================== claims on bulk writes
\* The number of oldest elements a batch of k has to push out of b
Evicted(b, k) == k - (b.usable - size(b))

\* C19: with preserve = false, a pushBulk of k elements with
\* capacity() < k <= usable onto a valid buffer holding s elements returns
\* true, takes out exactly the k - (usable - s) oldest elements, and leaves
\* the remaining old elements in order followed by the k elements of the
\* batch in order, size() = usable, wherever begin stood.
BulkEvictsJustEnough ==
  (/\ last.op = "pushBulk"
   /\ last.adr = SrcAdr
   /\ valid(Before)
   /\ ~Before.preserve
   /\ last.n > capacity(Before)
   /\ last.n <= Before.usable)
  => /\ last.ret = TRUE
     /\ size(Target) = Target.usable
     /\ data(Target) =
          SubSeq(data(Before), Evicted(Before, last.n) + 1, size(Before))
            \o last.d
     /\ Target.begin >= Target.buffer
     /\ Target.begin < Target.buffer + Target.usable

\* Witness for C19: a batch that pushes out some but not all of the old
\* elements of a rotated buffer of the largest capacity, begin wrapping
\* back into the first half
BulkEvictsPartOnRotated ==
  /\ last.op = "pushBulk"
  /\ last.adr = SrcAdr
  /\ valid(Before)
  /\ ~Before.preserve
  /\ Before.usable = MaxUsable
  /\ last.n > capacity(Before)
  /\ last.n <= Before.usable
  /\ Evicted(Before, last.n) < size(Before)
  /\ Before.begin + Evicted(Before, last.n) >= Before.buffer + Before.usable
  /\ last.d[1] # last.d[2]
  /\ last.ret = TRUE

\* C20: every element write of push and pushBulk (the copy at end, the
\* mirrored copy, both parts of a split mirrored copy) goes to an offset
\* inside [0, 2 * usable) of the allocated block, for every valid buffer of
\* every capacity, 0 and 1 included, either policy, wherever the cursors
\* stand.
PushWritesStayInside ==
  (/\ last.op \in {"push", "pushBulk"}
   /\ last.adr \in {NullPtr, SrcAdr}
   /\ valid(Before))
  => ~last.oob

\* ================================================ claims on the two halves
\* Slot p of the first half and slot p + usable of the second hold the same
\* element, or neither has been written
Mirrored(b) ==
  \A p \in 0..(b.usable - 1) : b.mem[p] = b.mem[p + b.usable]

\* C21: after every completed push or pushBulk, in any sequence with pop
\* and clear, every slot p in [0, usable) of a valid buffer holds what slot
\* p + usable holds, a bulk write whose mirror image would run past the end
\* of the block included.
HalvesAgree ==
  valid(rb["a"]) => Mirrored(rb["a"])

\* Witness for C21: a batch onto a rotated buffer of the largest capacity
\* that fits without eviction, starts in the first half, and whose mirror
\* image runs past the end of the block
BulkMirrorSplit ==
  /\ last.op = "pushBulk"
  /\ last.adr = SrcAdr
  /\ last.ret = TRUE
  /\ valid(Before)
  /\ Before.usable = MaxUsable
  /\ last.n <= capacity(Before)
  /\ Before.end < Before.buffer + Before.usable
  /\ Before.end + Before.usable + last.n > Before.buffer + Before.len
  /\ last.d[1] # last.d[2]
  /\ Mirrored(Target)

\* ===================================================== claims on cursors
\* How far the call under observation moves begin up before it looks at
\* buffer + usable: numElements in a partial pop, 1 in a push onto a full
\* buffer, size - capacity() in a batch that needs room
Advance ==
  IF last.op = "pop"
    THEN IF size(Before) # 0 /\ last.n < size(Before) THEN last.n ELSE 0
  ELSE IF last.op = "push"
    THEN IF capacity(Before) = 0 /\ ~Before.preserve THEN 1 ELSE 0
  ELSE IF last.op = "pushBulk"
    THEN IF last.adr = SrcAdr /\ last.n > capacity(Before) /\ ~Before.preserve
           THEN Min(last.n, Before.usable) - capacity(Before)
           ELSE 0
  ELSE 0

\* The elements the call under observation puts behind the old ones
Added ==
  IF last.op \in {"push", "pushBulk"}
    THEN IF last.ret = TRUE THEN LastN(last.d, Before.usable) ELSE << >>
    ELSE << >>

\* C22: after every completed clear, pop, push or pushBulk on a valid
\* buffer with usable > 0, begin lies in the first half,
\* buffer <= begin < buffer + usable; and when the call has carried begin to
\* or past buffer + usable, begin and end have come down by usable together:
\* the number of occupied elements and their order are those the call would
\* have left without the shift.
CursorsNormalised ==
  (/\ valid(rb["a"])
   /\ rb["a"].usable > 0)
  => /\ rb["a"].begin >= rb["a"].buffer
     /\ rb["a"].begin < rb["a"].buffer + rb["a"].usable
     /\ (/\ last.op \in {"pop", "push", "pushBulk"}
         /\ last.o = "a"
         /\ valid(Before)
         /\ Before.begin + Advance >= Before.buffer + Before.usable)
        => /\ Target.begin = Before.begin + Advance - Before.usable
           /\ size(Target) = size(Before) - Advance + Len(Added)
           /\ data(Target) =
                SubSeq(data(Before), Advance + 1, size(Before)) \o Added

\* Witness for C22: a partial pop that carries begin past the first half of
\* a buffer of the largest capacity and leaves elements behind
PopShiftsCursorsDown ==
  /\ last.op = "pop"
  /\ last.o = "a"
  /\ valid(Before)
  /\ Before.usable = MaxUsable
  /\ Advance > 0
  /\ Before.begin + Advance >= Before.buffer + Before.usable
  /\ size(Target) > 0
  /\ Target.begin < Before.begin

\* ====================================================== self-assignment
\* operator=(const RingBuf &r) with r the object itself: r.begin and r.end
\* are read after clear() has reset them
CopyAssignSelf(b, ub) ==
  IF valid(b) /\ (b.buffer # NullPtr /\ b.buffer # NilAdr)
    THEN LET c == clear(b).b
         IN push_backBulk(c, c.begin, c.end - c.begin, data(c), ub)
    ELSE [b |-> b, ret |-> FALSE, oob |-> FALSE]

\* o = o
AssignSelf(o) ==
  /\ Idle
  /\ o \in live
  /\ \E r \in {CopyAssignSelf(rb[o], "whole")} :
       /\ rb' = [rb EXCEPT ![o] = r.b]
       /\ last' = Call("selfAssign", o, 0, Zero, NullPtr, << >>, FALSE,
                       r.ret, << >>, r.oob)
  /\ sent' = [sent EXCEPT ![o] = Void]
  /\ pre' = Snapshot(o)
  /\ UNCHANGED conc
  /\ UNCHANGED << live, fifo >>

\* The calls of Next and the assignment of a to itself
NextSelf == Next \/ AssignSelf("a")

SpecSelf == Init /\ [][NextSelf]_vars

\* C23: a = a on a valid buffer leaves size() and the content read from it
\* as they were before the assignment.
SelfAssignKeepsContent ==
  (/\ last.op = "selfAssign"
   /\ valid(Before))
  => /\ size(Target) = size(Before)
     /\ data(Target) = data(Before)

\* ===================================================== the split mirror copy
\* The length of the first part of the split copy is a function of the
\* cursors alone.  It is applied here to the cursors of buffers of the
\* capacities around the range of uint16_t as well as of the small ones;
\* the cells of the block are left out of these objects.
SplitSizes == (1..MaxUsable) \union ((U16 - 2)..(U16 + 4))

\* Offsets of begin next to either end of the first half
SplitBegins(u) == {x \in (0..3) \union ((u - 4)..(u - 1)) : x >= 0 /\ x < u}

\* Numbers of occupied elements, and of elements in the batch
SplitCounts(u) == {x \in (1..3) \union ((u - 4)..u) : x >= 1 /\ x <= u}

\* The members of a buffer of capacity u with begin at offset b0 and s
\* elements occupied
Cursors(u, b0, s) ==
  [NoObject EXCEPT !.buffer = BlockAdr("a"), !.len = 2 * u, !.usable = u,
                   !.begin = BlockAdr("a") + b0,
                   !.end = BlockAdr("a") + b0 + s,
                   !.elementSize = SizeofT]

InitSplit ==
  /\ rb = [o \in Objs |-> NoObject]
  /\ live = {}
  /\ fifo = [o \in Objs |-> << >>]
  /\ sent = [o \in Objs |-> Void]
  /\ last = NoCall
  /\ pre = NoSnapshot
  /\ conc = NoThreads

\* push_back(data, size) of a batch that fits, in the branch "Does not fit
\* completely, we need to do a split copy": out holds the lengths of the
\* two memcpy calls
SplitCopy ==
  /\ Idle
  /\ \E u \in SplitSizes :
       \E b0 \in SplitBegins(u), s \in SplitCounts(u), k \in SplitCounts(u) :
         LET b == Cursors(u, b0, s)
         IN /\ k <= capacity(b)
            /\ ~(b.end >= (b.buffer + b.usable))
            /\ ~((b.end + b.usable + k) <= (b.buffer + b.len))
            /\ last' = Call("splitCopy", "a", k, Zero, SrcAdr, << >>, FALSE,
                            TRUE, << FirstPart(b), k - FirstPart(b) >>, FALSE)
            /\ pre' = [b |-> b, r |-> NoObject, sent |-> Void]
  /\ UNCHANGED conc
  /\ UNCHANGED << rb, live, fifo, sent >>

NextSplit == SplitCopy \/ Return

SpecSplit == InitSplit /\ [][NextSplit]_vars

\* C24: in the split mirror copy of pushBulk the length of the first part,
\* len - (end - buffer + usable) held in a uint16_t, is the value
\* usable - (end - buffer) for every capacity and every position of the
\* cursors, so that the two copies write the batch to its mirror slots: the
\* first part up to the end of the block, the rest from its start.
FirstPartExact ==
  last.op = "splitCopy"
  => /\ last.out[1] = Before.usable - (Before.end - Before.buffer)
     /\ last.out[2] = last.n - (Before.usable - (Before.end - Before.buffer))
====
